---- MODULE Spec2Model ----
(***************************************************************************)
(* Model of package dbi (github.com/stianwa/dbi): the transactional        *)
(* operations MultiQuery / Query / QueryString / QueryInterface, Upsert,   *)
(* Transaction and Unmarshal, run against an abstract database/sql         *)
(* backend whose calls may succeed, return an error or panic.              *)
(*                                                                         *)
(* One call is followed from its invocation to its return (or re-raised    *)
(* panic).  `log` records every backend call in program order, `pending`   *)
(* the effects executed inside the open transaction and `durable` the      *)
(* effects an independent reader sees after the call.                      *)
(***************************************************************************)
EXTENDS Integers, Sequences, FiniteSets, TLC

\* ---------------------------------------------------------------- bounds
MaxStmts == 2
MaxRows == 2
MaxFields == 2
MaxTarget == 1
MaxText == 10

\* ------------------------------------------------------- values and errors
\* error values; Nil is Go's nil error
E(kind, cause, set, row, col) ==
    [kind |-> kind, cause |-> cause, set |-> set, row |-> row, col |-> col]
Nil == E("nil", "", 0, 0, "")
\* errors handed back by the driver (tx.Query, Scan, Exec, Commit, ...)
DriverErrs == {E("driver", "e1", 0, 0, "")}
\* values an unexpected runtime fault may carry
NoPanic == "none"
PanicVals == {"p1", "p2"}
\* the fault of a nil-interface dereference in reflect.TypeOf(v).Kind()
NilDeref == "nil pointer dereference"

\* a backend call (or fault) in the log; p is the value of a panic
Ev(e, a, b) == [ev |-> e, a |-> a, b |-> b, p |-> NoPanic]
EvP(e, p) == [ev |-> e, a |-> 0, b |-> 0, p |-> p]
Res(kind, n) == [res |-> kind, n |-> n]

Wrappers == {"Query", "QueryString", "QueryInterface"}
BatchOps == {"Upsert", "Transaction"}

\* the column lists a result cursor may report (rows.Columns())
ResultColSets == {<<>>, <<"a">>, <<"a", "b">>, <<"b", "c">>}
\* a dbi tag after strings.Split(tag, ","); <<>> stands for a field without
\* a dbi tag, <<"">> for the tag `dbi:""`
Tags == {<<>>, <<"">>, <<"a">>, <<"b">>, <<"a", "date">>, <<"b", "agg">>}
RECURSIVE SeqsUpTo(_, _)
SeqsUpTo(S, n) ==
    IF n = 0 THEN {<<>>}
    ELSE LET shorter == SeqsUpTo(S, n - 1)
         IN shorter \cup {Append(s, x) : s \in {q \in shorter : Len(q) = n - 1}, x \in S}
\* record types: the dbi tags of the struct's fields, in declaration order
RecordTypes == SeqsUpTo(Tags, MaxFields)
\* the type of Unmarshal's argument v as its chain of kinds
\* (TypeOf(v).Kind(), TypeOf(v).Elem().Kind(), ...); <<>> is the nil interface
StructPtrSlicePtr == <<"ptr", "slice", "ptr", "struct">>
Shapes == {<<>>, <<"struct">>, <<"ptr", "int">>, <<"ptr", "slice", "struct">>,
           <<"ptr", "slice", "ptr", "int">>, StructPtrSlicePtr}
\* what the caller's collection already holds: elements marked row 0
Targets == {[k \in 1..n |-> [row |-> 0]] : n \in 0..MaxTarget}

VARIABLES
    op,         \* the public operation called ("none" before the call)
    pc,         \* position inside the operation
    inp,        \* the call's arguments
    args,       \* MultiQuery's local args after padding / Transaction's args
    i,          \* statement (set) index, 1-based
    j,          \* row index inside the current set, 1-based
    rowsLeft,   \* rows the open cursor still holds
    cols,       \* rows.Columns() of the open cursor
    populate,   \* unmarshal's populate map: column -> taggroup
    err,        \* the function-scope variable err the deferred closure reads
    result,     \* the error value handed to the caller
    ret,        \* MultiQuery's result sets handed to the caller
    rowset,     \* MultiQuery's rowset of the current statement
    target,     \* Unmarshal's caller-owned collection
    panicking,  \* value of the panic in flight, NoPanic if none
    raised,     \* value of the panic re-raised to the caller
    tx,         \* "none", "open", "committed", "commitfailed", "rolledback"
    pending,    \* effects executed inside the open transaction
    durable,    \* effects that persist (visible to an independent read)
    open,       \* deferred Close()s registered so far, in registration order
    log,        \* backend calls made so far, in program order
    call,       \* a function applied on its own: its name and its input
    out         \* what that function returned, NotCalled before

vars == <<op, pc, inp, args, i, j, rowsLeft, cols, populate, err, result, ret,
          rowset, target, panicking, raised, tx, pending, durable, open, log,
          call, out>>
\* the variables of the operations
opVars == <<op, pc, inp, args, i, j, rowsLeft, cols, populate, err, result, ret,
            rowset, target, panicking, raised, tx, pending, durable, open, log>>
\* the variables of a function applied on its own
fnVars == <<call, out>>
NoCall == [fn |-> "none"]
NotCalled == [done |-> FALSE]

NoInput == [sql |-> 0, args |-> <<>>, v |-> <<>>, vnil |-> FALSE, t |-> <<>>,
            target |-> <<>>]

\* no operation has been called yet
Idle ==
    /\ op = "none"
    /\ pc = "idle"
    /\ inp = NoInput
    /\ args = <<>>
    /\ i = 0
    /\ j = 0
    /\ rowsLeft = 0
    /\ cols = <<>>
    /\ populate = <<>>
    /\ err = Nil
    /\ result = Nil
    /\ ret = <<>>
    /\ rowset = <<>>
    /\ target = <<>>
    /\ panicking = NoPanic
    /\ raised = NoPanic
    /\ tx = "none"
    /\ pending = {}
    /\ durable = {}
    /\ open = <<>>
    /\ log = <<>>

Init ==
    /\ Idle
    /\ call = NoCall
    /\ out = NotCalled

\* ------------------------------------------------------------ pure helpers
Count(l, e) == Cardinality({k \in DOMAIN l : l[k].ev = e})
Has(l, e) == \E k \in DOMAIN l : l[k].ev = e
\* deferred rows.Close() / stmt.Close() run last-registered first
CloseEvents_OnlyLast(o) ==
    IF Len(o) = 0 THEN <<>> ELSE <<Ev("Close", o[Len(o)].n, 0)>>
CloseEvents(o) == [k \in 1..Len(o) |-> Ev("Close", o[Len(o) + 1 - k].n, 0)]

\* for len(sql) > len(args) { args = append(args, []interface{}{}) }
\* an argument list is modelled by its length; a padded one is empty (0)
RECURSIVE PadArgs_NonEmpty(_, _)
PadArgs_NonEmpty(nsql, a) ==
    IF nsql > Len(a) THEN PadArgs_NonEmpty(nsql, Append(a, 1)) ELSE a
RECURSIVE PadArgs(_, _)
PadArgs(nsql, a) ==
    IF nsql > Len(a) THEN PadArgs(nsql, Append(a, 0)) ELSE a

\* the deferred closure of MultiQuery, Upsert, Transaction and unmarshal
\* (the same text in all four): p is recover()'s value, e the closure's err
DeferredTxEnd_CommitOnPanic(p, e) ==
    IF e # Nil THEN "rollback" ELSE "commit"
DeferredTxEnd(p, e) ==
    IF p # NoPanic THEN "rollback_repanic"
    ELSE IF e # Nil THEN "rollback"
    ELSE "commit"

\* the operations' results are unnamed: the operand of `return` is evaluated
\* before the deferred closure runs, and the closure's `err = tx.Commit()`
\* assigns the local variable only
ResultAfterDefers(returned, errAfterDefer) == returned

\* where control goes once the deferred calls of MultiQuery have run
AfterCall(o) == IF o \in Wrappers THEN "wrap" ELSE "done"

\* `return x`: the result operand is fixed, the deferred calls run next
Return(r) ==
    /\ result' = r
    /\ pc' = "defer"
    /\ UNCHANGED panicking
\* a panic unwinds to the deferred calls
Panic(p) ==
    /\ panicking' = p
    /\ pc' = "defer"
    /\ UNCHANGED result

\* ------------------------------------------------------------- MultiQuery
CallMultiQuery ==
    /\ pc = "idle"
    /\ \E n \in 0..MaxStmts, m \in 0..MaxStmts :
        /\ op' = "MultiQuery"
        /\ inp' = [NoInput EXCEPT !.sql = n, !.args = [k \in 1..m |-> 1]]
        /\ args' = [k \in 1..m |-> 1]
    /\ pc' = "mq_begin"
    /\ UNCHANGED <<i, j, rowsLeft, cols, populate, err, result, ret, rowset,
                   target, panicking, raised, tx, pending, durable, open, log>>
    /\ UNCHANGED fnVars

\* Query, QueryString, QueryInterface: c.MultiQuery([]string{sql}, args)
CallQuery ==
    /\ pc = "idle"
    /\ op' \in Wrappers
    /\ inp' = [NoInput EXCEPT !.sql = 1, !.args = <<1>>]
    /\ args' = <<1>>
    /\ pc' = "mq_begin"
    /\ UNCHANGED <<i, j, rowsLeft, cols, populate, err, result, ret, rowset,
                   target, panicking, raised, tx, pending, durable, open, log>>
    /\ UNCHANGED fnVars

\* tx, err := c.db.Begin(); the padding loop; the defer registration
MQBegin ==
    /\ pc = "mq_begin"
    /\ \/ /\ tx' = "open"
          /\ err' = Nil
          /\ log' = Append(log, Ev("Begin", 0, 0))
          /\ args' = PadArgs(inp.sql, args)
          /\ i' = 1
          /\ IF inp.sql >= 1
                THEN pc' = "mq_query" /\ UNCHANGED result
                ELSE Return(Nil)
          /\ UNCHANGED <<raised>>
       \/ \E e \in DriverErrs :
          /\ err' = e
          /\ result' = e
          /\ log' = Append(log, Ev("BeginFailed", 0, 0))
          /\ pc' = AfterCall(op)
          /\ UNCHANGED <<tx, args, i, raised>>
    /\ UNCHANGED <<op, inp, j, rowsLeft, cols, populate, ret, rowset, target,
                   panicking, pending, durable, open>>
    /\ UNCHANGED fnVars

\* rows, err := tx.Query(s, args[i]...) inside the loop body: this err is a
\* new variable of the loop body, the closure's err stays as it was
MQQuery ==
    /\ pc = "mq_query"
    /\ \/ \E n \in 0..MaxRows :
          /\ rowsLeft' = n
          /\ open' = Append(open, Res("rows", i))
          /\ pending' = pending \cup {<<i, 0>>}
          /\ log' = Append(log, Ev("Query", i, args[i]))
          /\ rowset' = <<>>
          /\ pc' = "mq_next"
          /\ UNCHANGED <<result, panicking, ret>>
       \/ \E e \in DriverErrs :
          /\ log' = Append(log, Ev("QueryFailed", i, args[i]))
          /\ Return(e)
          /\ ret' = <<>>
          /\ UNCHANGED <<rowsLeft, open, pending, rowset>>
       \/ \E p \in PanicVals :
          /\ log' = Append(log, EvP("Panic", p))
          /\ Panic(p)
          /\ UNCHANGED <<rowsLeft, open, pending, rowset, ret>>
    /\ UNCHANGED <<op, inp, args, i, j, cols, populate, err, target, raised,
                   tx, durable>>
    /\ UNCHANGED fnVars

\* for rows.Next() { ... }; err = rows.Err() (the loop body's err);
\* ret = append(ret, rowset); after the last statement: return ret, err
MQNext ==
    /\ pc = "mq_next"
    /\ \/ /\ rowsLeft > 0
          /\ log' = Append(log, Ev("Next", i, Len(rowset) + 1))
          /\ pc' = "mq_scan"
          /\ UNCHANGED <<result, panicking, ret, i>>
       \/ /\ rowsLeft = 0
          /\ log' = Append(log, Ev("RowsErr", i, 0))
          /\ ret' = Append(ret, rowset)
          /\ i' = i + 1
          /\ IF i < inp.sql
                THEN pc' = "mq_query" /\ UNCHANGED <<result, panicking>>
                ELSE Return(err)
       \/ \E e \in DriverErrs :
          /\ log' = Append(log, Ev("RowsErrFailed", i, 0))
          /\ Return(e)
          /\ ret' = <<>>
          /\ UNCHANGED i
       \/ \E p \in PanicVals :
          /\ log' = Append(log, EvP("Panic", p))
          /\ Panic(p)
          /\ UNCHANGED <<ret, i>>
    /\ UNCHANGED <<op, inp, args, j, rowsLeft, cols, populate, err, rowset,
                   target, raised, tx, pending, durable, open>>
    /\ UNCHANGED fnVars

\* if err := rows.Scan(columnPointers...); err != nil { return nil, err }
MQScan ==
    /\ pc = "mq_scan"
    /\ \/ /\ log' = Append(log, Ev("Scan", i, Len(rowset) + 1))
          /\ rowset' = Append(rowset, <<i, Len(rowset) + 1>>)
          /\ rowsLeft' = rowsLeft - 1
          /\ pc' = "mq_next"
          /\ UNCHANGED <<result, panicking, ret>>
       \/ \E e \in DriverErrs :
          /\ log' = Append(log, Ev("ScanFailed", i, Len(rowset) + 1))
          /\ Return(e)
          /\ ret' = <<>>
          /\ UNCHANGED <<rowset, rowsLeft>>
       \/ \E p \in PanicVals :
          /\ log' = Append(log, EvP("Panic", p))
          /\ Panic(p)
          /\ UNCHANGED <<rowset, rowsLeft, ret>>
    /\ UNCHANGED <<op, inp, args, i, j, cols, populate, err, target, raised,
                   tx, pending, durable, open>>
    /\ UNCHANGED fnVars

\* Query / QueryString / QueryInterface after MultiQuery has returned:
\* if err != nil { return nil, err }; otherwise the rows of rows[0]
QueryReturn ==
    /\ pc = "wrap"
    /\ ret' = IF result # Nil THEN <<>> ELSE ret[1]
    /\ pc' = "done"
    /\ UNCHANGED <<op, inp, args, i, j, rowsLeft, cols, populate, err, result,
                   rowset, target, panicking, raised, tx, pending, durable,
                   open, log>>
    /\ UNCHANGED fnVars

\* ----------------------------------------------------------------- Upsert
CallUpsert ==
    /\ pc = "idle"
    /\ op' = "Upsert"
    /\ \E n \in 0..MaxRows :
        /\ inp' = [NoInput EXCEPT !.sql = 1, !.args = <<n>>]
        /\ args' = <<n>>
    /\ pc' = "up_begin"
    /\ UNCHANGED <<i, j, rowsLeft, cols, populate, err, result, ret, rowset,
                   target, panicking, raised, tx, pending, durable, open, log>>
    /\ UNCHANGED fnVars

\* tx, err := c.db.Begin(); the defer registration
UpBegin ==
    /\ pc = "up_begin"
    /\ \/ /\ tx' = "open"
          /\ err' = Nil
          /\ log' = Append(log, Ev("Begin", 0, 0))
          /\ pc' = "up_prepare"
          /\ UNCHANGED result
       \/ \E e \in DriverErrs :
          /\ err' = e
          /\ result' = e
          /\ log' = Append(log, Ev("BeginFailed", 0, 0))
          /\ pc' = "done"
          /\ UNCHANGED tx
    /\ UNCHANGED <<op, inp, args, i, j, rowsLeft, cols, populate, ret, rowset,
                   target, panicking, raised, pending, durable, open>>
    /\ UNCHANGED fnVars

\* stmt, err := tx.Prepare(sql) at function scope: err is the closure's err
UpPrepare ==
    /\ pc = "up_prepare"
    /\ \/ /\ log' = Append(log, Ev("Prepare", 1, 0))
          /\ open' = Append(open, Res("stmt", 1))
          /\ i' = 1
          /\ j' = 1
          /\ IF args[1] >= 1
                THEN pc' = "up_exec" /\ UNCHANGED <<result, panicking>>
                ELSE Return(err)
          /\ UNCHANGED err
       \/ \E e \in DriverErrs :
          /\ log' = Append(log, Ev("PrepareFailed", 1, 0))
          /\ err' = e
          /\ Return(e)
          /\ UNCHANGED <<open, i, j>>
       \/ \E p \in PanicVals :
          /\ log' = Append(log, EvP("Panic", p))
          /\ Panic(p)
          /\ UNCHANGED <<open, i, j, err>>
    /\ UNCHANGED <<op, inp, args, rowsLeft, cols, populate, ret, rowset, target,
                   raised, tx, pending, durable>>
    /\ UNCHANGED fnVars

\* the row number Upsert puts in its error: Go's range index i of the row,
\* which is 0 for the first row (k is the row's 1-based position)
UpsertRowNo(k) == k - 1

\* for i, a := range array { if _, err := stmt.Exec(a...); err != nil {
\*   return fmt.Errorf("upsert on row %d failed: %v", i, err) } }
\* the if-scoped err is not the closure's err; after the loop: return err
UpExec ==
    /\ pc = "up_exec"
    /\ \/ /\ log' = Append(log, Ev("Exec", 1, j))
          /\ pending' = pending \cup {<<1, j>>}
          /\ j' = j + 1
          /\ IF j < args[1]
                THEN pc' = "up_exec" /\ UNCHANGED <<result, panicking>>
                ELSE Return(err)
       \/ \E e \in DriverErrs :
          /\ log' = Append(log, Ev("ExecFailed", 1, j))
          /\ Return(E("upsert on row", e.cause, 0, UpsertRowNo(j), ""))
          /\ UNCHANGED <<pending, j>>
       \/ \E p \in PanicVals :
          /\ log' = Append(log, EvP("Panic", p))
          /\ Panic(p)
          /\ UNCHANGED <<pending, j>>
    /\ UNCHANGED <<op, inp, args, i, rowsLeft, cols, populate, err, ret, rowset,
                   target, raised, tx, durable, open>>
    /\ UNCHANGED fnVars

\* ------------------------------------------------------------ Transaction
\* for len(sqls) != len(args) { return fmt.Errorf("uneven set ...") }
UnevenSets_OnlyFewerArgs(nsqls, nargs) == nsqls > nargs
UnevenSets(nsqls, nargs) == nsqls # nargs

CallTransaction ==
    /\ pc = "idle"
    /\ op' = "Transaction"
    /\ \E n \in 0..MaxStmts, a \in SeqsUpTo(0..MaxRows, MaxStmts + 1) :
        /\ inp' = [NoInput EXCEPT !.sql = n, !.args = a]
        /\ args' = a
    /\ pc' = "tr_begin"
    /\ UNCHANGED <<i, j, rowsLeft, cols, populate, err, result, ret, rowset,
                   target, panicking, raised, tx, pending, durable, open, log>>
    /\ UNCHANGED fnVars

\* the position after (setno, rowno) in the nested loops over args[setno],
\* skipping sets without rows; setno = nsqls + 1 when the loops are over
RECURSIVE NextRow_OneRowPerSet(_, _, _, _)
NextRow_OneRowPerSet(a, nsqls, setno, rowno) ==
    IF setno > nsqls THEN <<setno, 1>>
    ELSE IF rowno = 0 /\ 1 <= a[setno] THEN <<setno, 1>>
    ELSE NextRow_OneRowPerSet(a, nsqls, setno + 1, 0)
RECURSIVE NextRow(_, _, _, _)
NextRow(a, nsqls, setno, rowno) ==
    IF setno > nsqls THEN <<setno, 1>>
    ELSE IF rowno + 1 <= a[setno] THEN <<setno, rowno + 1>>
    ELSE NextRow(a, nsqls, setno + 1, 0)

\* the count check; tx, err := c.db.Begin(); the defer registration
TrBegin ==
    /\ pc = "tr_begin"
    /\ \/ /\ UnevenSets(inp.sql, Len(args))
          /\ result' = E("uneven set of sql and data", "", 0, 0, "")
          /\ pc' = "done"
          /\ UNCHANGED <<tx, err, log, i>>
       \/ /\ ~UnevenSets(inp.sql, Len(args))
          /\ \/ /\ tx' = "open"
                /\ err' = Nil
                /\ log' = Append(log, Ev("Begin", 0, 0))
                /\ i' = 1
                /\ IF inp.sql >= 1
                      THEN pc' = "tr_prepare" /\ UNCHANGED result
                      ELSE Return(Nil)
             \/ \E e \in DriverErrs :
                /\ err' = e
                /\ result' = e
                /\ log' = Append(log, Ev("BeginFailed", 0, 0))
                /\ pc' = "done"
                /\ UNCHANGED <<tx, i>>
    /\ UNCHANGED <<op, inp, args, j, rowsLeft, cols, populate, ret, rowset,
                   target, panicking, raised, pending, durable, open>>
    /\ UNCHANGED fnVars

\* for _, s := range sqls { stmt, err := tx.Prepare(s) ... defer stmt.Close() }
\* err is a new variable of the loop body
TrPrepare ==
    /\ pc = "tr_prepare"
    /\ \/ /\ log' = Append(log, Ev("Prepare", i, 0))
          /\ open' = Append(open, Res("stmt", i))
          /\ IF i < inp.sql
                THEN /\ i' = i + 1
                     /\ pc' = "tr_prepare"
                     /\ UNCHANGED <<j, result, panicking>>
                ELSE LET first == NextRow(args, inp.sql, 1, 0)
                     IN /\ i' = first[1]
                        /\ j' = first[2]
                        /\ IF first[1] <= inp.sql
                              THEN pc' = "tr_exec" /\ UNCHANGED <<result, panicking>>
                              ELSE Return(Nil)
       \/ \E e \in DriverErrs :
          /\ log' = Append(log, Ev("PrepareFailed", i, 0))
          /\ Return(e)
          /\ UNCHANGED <<open, i, j>>
       \/ \E p \in PanicVals :
          /\ log' = Append(log, EvP("Panic", p))
          /\ Panic(p)
          /\ UNCHANGED <<open, i, j>>
    /\ UNCHANGED <<op, inp, args, rowsLeft, cols, populate, err, ret, rowset,
                   target, raised, tx, pending, durable>>
    /\ UNCHANGED fnVars

\* for setno := range sqls { for rowno, row := range args[setno] {
\*   if _, err := stmtlist[setno].Exec(row...); err != nil {
\*     return fmt.Errorf("sql set %d, row %d: %v", setno+1, rowno+1, err) } } }
\* return nil          (i, j are setno+1, rowno+1)
TrExec ==
    /\ pc = "tr_exec"
    /\ \/ /\ log' = Append(log, Ev("Exec", i, j))
          /\ pending' = pending \cup {<<i, j>>}
          /\ LET nxt == NextRow(args, inp.sql, i, j)
             IN /\ i' = nxt[1]
                /\ j' = nxt[2]
                /\ IF nxt[1] <= inp.sql
                      THEN pc' = "tr_exec" /\ UNCHANGED <<result, panicking>>
                      ELSE Return(Nil)
       \/ \E e \in DriverErrs :
          /\ log' = Append(log, Ev("ExecFailed", i, j))
          /\ Return(E("sql set, row", e.cause, i, j, ""))
          /\ UNCHANGED <<pending, i, j>>
       \/ \E p \in PanicVals :
          /\ log' = Append(log, EvP("Panic", p))
          /\ Panic(p)
          /\ UNCHANGED <<pending, i, j>>
    /\ UNCHANGED <<op, inp, args, rowsLeft, cols, populate, err, ret, rowset,
                   target, raised, tx, durable, open>>
    /\ UNCHANGED fnVars

\* -------------------------------------------------------------- Unmarshal
\* Unmarshal, UnmarshalReadOnly and UnmarshalWithOptions all call
\* c.unmarshal and differ in the txOpts they hand to BeginTx only
CallUnmarshal ==
    /\ pc = "idle"
    /\ op' = "Unmarshal"
    /\ \E v \in Shapes, isnil \in BOOLEAN, t \in RecordTypes, tg \in Targets :
        /\ v # StructPtrSlicePtr => (t = <<>> /\ tg = <<>> /\ ~isnil)
        /\ isnil => (t = <<>> /\ tg = <<>>)
        /\ inp' = [NoInput EXCEPT !.v = v, !.vnil = isnil, !.t = t, !.target = tg]
        /\ target' = tg
    /\ pc' = "um_validate"
    /\ UNCHANGED <<args, i, j, rowsLeft, cols, populate, err, result, ret, rowset,
                   panicking, raised, tx, pending, durable, open, log>>
    /\ UNCHANGED fnVars

\* the && chain over reflect.TypeOf(v)...Kind(): "ok", "error" (the else
\* branch) or "panic" (Kind() called on the nil Type of a nil interface)
ShapeCheck(v) ==
    IF v = <<>> THEN "panic"
    ELSE IF /\ v[1] = "ptr"
            /\ v[2] = "slice"
            /\ v[3] = "ptr"
            /\ v[4] = "struct" THEN "ok"
    ELSE "error"

\* the loop over t.Field(i) filling populate; a column met again stops it
RECURSIVE CollectFields_NoDupCheck(_, _, _)
CollectFields_NoDupCheck(t, k, pop) ==
    IF k > Len(t) THEN [dup |-> "", populate |-> pop]
    ELSE LET options == t[k]
         IN IF Len(options) > 0 /\ options[1] # ""
               THEN CollectFields_NoDupCheck(t, k + 1,
                        [c \in (DOMAIN pop) \cup {options[1]} |->
                            IF c = options[1]
                               THEN [Field |-> k, Column |-> options[1],
                                     Options |-> {options[n] : n \in 2..Len(options)}]
                               ELSE pop[c]])
               ELSE CollectFields_NoDupCheck(t, k + 1, pop)
RECURSIVE CollectFields(_, _, _)
CollectFields(t, k, pop) ==
    IF k > Len(t) THEN [dup |-> "", populate |-> pop]
    ELSE LET options == t[k]
         IN IF Len(options) > 0 /\ options[1] # ""
               THEN IF options[1] \in DOMAIN pop
                       THEN [dup |-> options[1], populate |-> pop]
                       ELSE CollectFields(t, k + 1,
                                [c \in (DOMAIN pop) \cup {options[1]} |->
                                    IF c = options[1]
                                       THEN [Field |-> k, Column |-> options[1],
                                             Options |-> {options[n] : n \in 2..Len(options)}]
                                       ELSE pop[c]])
               ELSE CollectFields(t, k + 1, pop)

\* the shape check, the CanSet check and the collection of the bindings
UMValidate ==
    /\ pc = "um_validate"
    /\ LET shape == ShapeCheck(inp.v)
           coll == CollectFields(inp.t, 1, <<>>)
       IN \/ /\ shape = "panic"
             /\ raised' = NilDeref
             /\ pc' = "done"
             /\ UNCHANGED <<result, populate>>
          \/ /\ shape = "error"
             /\ result' = E("dbi: argument must be a ponter to a slice with pointers to a struct", "", 0, 0, "")
             /\ pc' = "done"
             /\ UNCHANGED <<raised, populate>>
          \/ /\ shape = "ok"
             /\ inp.vnil
             /\ result' = E("dbi: unable to set/change slice", "", 0, 0, "")
             /\ pc' = "done"
             /\ UNCHANGED <<raised, populate>>
          \/ /\ shape = "ok"
             /\ ~inp.vnil
             /\ coll.dup # ""
             /\ result' = E("dbi: column used on multiple fields", "", 0, 0, coll.dup)
             /\ pc' = "done"
             /\ UNCHANGED <<raised, populate>>
          \/ /\ shape = "ok"
             /\ ~inp.vnil
             /\ coll.dup = ""
             /\ populate' = coll.populate
             /\ pc' = "um_begin"
             /\ UNCHANGED <<raised, result>>
    /\ UNCHANGED <<op, inp, args, i, j, rowsLeft, cols, err, ret, rowset, target,
                   panicking, tx, pending, durable, open, log>>
    /\ UNCHANGED fnVars

\* tx, err := c.db.BeginTx(context.Background(), txOpts); the defer
UMBegin ==
    /\ pc = "um_begin"
    /\ \/ /\ tx' = "open"
          /\ err' = Nil
          /\ log' = Append(log, Ev("Begin", 0, 0))
          /\ pc' = "um_query"
          /\ UNCHANGED result
       \/ \E e \in DriverErrs :
          /\ err' = e
          /\ result' = E("dbi: begin", e.cause, 0, 0, "")
          /\ log' = Append(log, Ev("BeginFailed", 0, 0))
          /\ pc' = "done"
          /\ UNCHANGED tx
    /\ UNCHANGED <<op, inp, args, i, j, rowsLeft, cols, populate, ret, rowset,
                   target, panicking, raised, pending, durable, open>>
    /\ UNCHANGED fnVars

\* the bound columns that colCheck does not hold
MissingColumns_Unchecked(pop, cs) == {}
MissingColumns(pop, cs) ==
    {c \in DOMAIN pop : ~(\E k \in DOMAIN cs : cs[k] = c)}

\* rows, err := tx.Query(SQL, args...) at function scope (the closure's
\* err); defer rows.Close(); cols, _ := rows.Columns(); the column check
UMQuery ==
    /\ pc = "um_query"
    /\ \/ \E n \in 0..MaxRows, cs \in ResultColSets :
          /\ rowsLeft' = n
          /\ cols' = cs
          /\ err' = Nil
          /\ open' = Append(open, Res("rows", 1))
          /\ pending' = pending \cup {<<1, 0>>}
          /\ log' = Append(log, Ev("Query", 1, 0))
          /\ IF MissingColumns(populate, cs) # {}
                THEN \E c \in MissingColumns(populate, cs) :
                        Return(E("dbi: query didn't return any columns with name", "", 0, 0, c))
                ELSE pc' = "um_next" /\ UNCHANGED <<result, panicking>>
       \/ \E e \in DriverErrs :
          /\ log' = Append(log, Ev("QueryFailed", 1, 0))
          /\ err' = e
          /\ Return(E("dbi: query", e.cause, 0, 0, ""))
          /\ UNCHANGED <<rowsLeft, cols, open, pending>>
       \/ \E p \in PanicVals :
          /\ log' = Append(log, EvP("Panic", p))
          /\ Panic(p)
          /\ UNCHANGED <<rowsLeft, cols, open, pending, err>>
    /\ UNCHANGED <<op, inp, args, i, j, populate, ret, rowset, target, raised,
                   tx, durable>>
    /\ UNCHANGED fnVars

\* for rows.Next() { ... }; if err := rows.Err(); err != nil { return
\* fmt.Errorf("dbi: rows: %v", err) } (an if-scoped err); return err
UMNext ==
    /\ pc = "um_next"
    /\ \/ /\ rowsLeft > 0
          /\ log' = Append(log, Ev("Next", 1, Len(target) - Len(inp.target) + 1))
          /\ pc' = "um_scan"
          /\ UNCHANGED <<result, panicking>>
       \/ /\ rowsLeft = 0
          /\ log' = Append(log, Ev("RowsErr", 1, 0))
          /\ Return(err)
       \/ \E e \in DriverErrs :
          /\ log' = Append(log, Ev("RowsErrFailed", 1, 0))
          /\ Return(E("dbi: rows", e.cause, 0, 0, ""))
       \/ \E p \in PanicVals :
          /\ log' = Append(log, EvP("Panic", p))
          /\ Panic(p)
    /\ UNCHANGED <<op, inp, args, i, j, rowsLeft, cols, populate, err, ret,
                   rowset, target, raised, tx, pending, durable, open>>
    /\ UNCHANGED fnVars

\* targetSlice.Set(reflect.Append(targetSlice, n))
AppendRecord_Replaces(tgt, n) == <<n>>
AppendRecord(tgt, n) == Append(tgt, n)

\* if err := rows.Scan(columnPointers...); err != nil { return
\* fmt.Errorf("dbi: row scan: %v", err) } (an if-scoped err);
\* targetSlice.Set(reflect.Append(targetSlice, n))
UMScan ==
    /\ pc = "um_scan"
    /\ \/ /\ log' = Append(log, Ev("Scan", 1, Len(target) - Len(inp.target) + 1))
          /\ target' = AppendRecord(target, [row |-> Len(target) - Len(inp.target) + 1])
          /\ rowsLeft' = rowsLeft - 1
          /\ pc' = "um_next"
          /\ UNCHANGED <<result, panicking>>
       \/ \E e \in DriverErrs :
          /\ log' = Append(log, Ev("ScanFailed", 1, Len(target) - Len(inp.target) + 1))
          /\ Return(E("dbi: row scan", e.cause, 0, 0, ""))
          /\ UNCHANGED <<target, rowsLeft>>
       \/ \E p \in PanicVals :
          /\ log' = Append(log, EvP("Panic", p))
          /\ Panic(p)
          /\ UNCHANGED <<target, rowsLeft>>
    /\ UNCHANGED <<op, inp, args, i, j, cols, populate, err, ret, rowset, raised,
                   tx, pending, durable, open>>
    /\ UNCHANGED fnVars

\* ---------------------------------------------- the deferred calls, LIFO
\* what the closure calls on the transaction: tx.Rollback() and panic(p),
\* tx.Rollback(), or tx.Commit() whose answer is c
TxEndEvents_RollbackAfterFailedCommit(how, p, c) ==
    IF how = "rollback_repanic" THEN <<Ev("Rollback", 0, 0), EvP("Raise", p)>>
    ELSE IF how = "rollback" THEN <<Ev("Rollback", 0, 0)>>
    ELSE IF c = Nil THEN <<Ev("Commit", 0, 0)>>
    ELSE <<Ev("CommitFailed", 0, 0), Ev("Rollback", 0, 0)>>
TxEndEvents(how, p, c) ==
    IF how = "rollback_repanic" THEN <<Ev("Rollback", 0, 0), EvP("Raise", p)>>
    ELSE IF how = "rollback" THEN <<Ev("Rollback", 0, 0)>>
    ELSE <<Ev(IF c = Nil THEN "Commit" ELSE "CommitFailed", 0, 0)>>

\* the deferred Close()s, then the closure registered right after Begin
RunDefers ==
    /\ pc = "defer"
    /\ LET how == DeferredTxEnd(panicking, err)
           closed == log \o CloseEvents(open)
       IN \/ /\ how = "rollback_repanic"
             /\ log' = closed \o TxEndEvents(how, panicking, Nil)
             /\ tx' = "rolledback"
             /\ raised' = panicking
             /\ pc' = "done"
             /\ UNCHANGED <<err, durable>>
          \/ /\ how = "rollback"
             /\ log' = closed \o TxEndEvents(how, panicking, Nil)
             /\ tx' = "rolledback"
             /\ pc' = AfterCall(op)
             /\ UNCHANGED <<err, durable, raised>>
          \/ /\ how = "commit"
             /\ \E c \in {Nil} \cup DriverErrs :
                 /\ err' = c
                 /\ tx' = IF c = Nil THEN "committed" ELSE "commitfailed"
                 /\ durable' = IF c = Nil THEN durable \cup pending ELSE durable
                 /\ log' = closed \o TxEndEvents(how, panicking, c)
             /\ pc' = AfterCall(op)
             /\ UNCHANGED raised
    /\ result' = ResultAfterDefers(result, err')
    /\ pending' = {}
    /\ open' = <<>>
    /\ panicking' = NoPanic
    /\ UNCHANGED <<op, inp, args, i, j, rowsLeft, cols, populate, ret, rowset,
                   target>>
    /\ UNCHANGED fnVars

Next ==
    \/ CallMultiQuery
    \/ CallQuery
    \/ MQBegin
    \/ MQQuery
    \/ MQNext
    \/ MQScan
    \/ QueryReturn
    \/ CallUpsert
    \/ UpBegin
    \/ UpPrepare
    \/ UpExec
    \/ CallTransaction
    \/ TrBegin
    \/ TrPrepare
    \/ TrExec
    \/ CallUnmarshal
    \/ UMValidate
    \/ UMBegin
    \/ UMQuery
    \/ UMNext
    \/ UMScan
    \/ RunDefers

Spec == Init /\ [][Next]_vars

\* ======================================== functions applied on their own
Returned(v) == [done |-> TRUE, val |-> v]

\* --------------------------------------------------- postgresPlaceholders
\* SQL texts as sequences of characters; "?" is the placeholder
Alphabet == {"?", "a"}
Texts == SeqsUpTo(Alphabet, MaxText)

DigitChar(d) ==
    CASE d = 0 -> "0" [] d = 1 -> "1" [] d = 2 -> "2" [] d = 3 -> "3"
      [] d = 4 -> "4" [] d = 5 -> "5" [] d = 6 -> "6" [] d = 7 -> "7"
      [] d = 8 -> "8" [] d = 9 -> "9"
\* the digits fmt's %d prints for n >= 0
RECURSIVE FormatDecimal(_)
FormatDecimal(n) ==
    IF n < 10 THEN <<DigitChar(n)>>
    ELSE Append(FormatDecimal(n \div 10), DigitChar(n % 10))

\* placeholderRe.Split(sql, -1) as regexp.Split computes it: p is the
\* position scanned, beg the start of the piece in progress (1-based), end0
\* the 0-based start of the last match of `\?`, strs the pieces so far
RECURSIVE SplitFrom(_, _, _, _, _)
SplitFrom(s, p, beg, end0, strs) ==
    IF p > Len(s)
       THEN IF end0 # Len(s) THEN Append(strs, SubSeq(s, beg, Len(s))) ELSE strs
    ELSE IF s[p] = "?"
       THEN SplitFrom(s, p + 1, p + 1, p - 1, Append(strs, SubSeq(s, beg, p - 1)))
    ELSE SplitFrom(s, p + 1, beg, end0, strs)
Split(s) == IF Len(s) = 0 THEN << <<>> >> ELSE SplitFrom(s, 1, 1, 0, <<>>)

\* for i, sqlpart := range elems { if i != 0 { ret += fmt.Sprintf("$%d",
\* argno); argno++ }; ret += sqlpart }        (k is i + 1)
RECURSIVE JoinElems_NoIncrement(_, _, _, _)
JoinElems_NoIncrement(elems, k, argno, r) ==
    IF k > Len(elems) THEN r
    ELSE IF k # 1
       THEN JoinElems_NoIncrement(elems, k + 1, argno,
                                  r \o <<"$">> \o FormatDecimal(argno) \o elems[k])
    ELSE JoinElems_NoIncrement(elems, k + 1, argno, r \o elems[k])
RECURSIVE JoinElems(_, _, _, _)
JoinElems(elems, k, argno, r) ==
    IF k > Len(elems) THEN r
    ELSE IF k # 1
       THEN JoinElems(elems, k + 1, argno + 1,
                      r \o <<"$">> \o FormatDecimal(argno) \o elems[k])
    ELSE JoinElems(elems, k + 1, argno, r \o elems[k])

postgresPlaceholders(sql) ==
    LET elems == Split(sql)
    IN IF Len(elems) > 1 THEN JoinElems(elems, 1, 1, <<>>) ELSE sql

ApplyPostgresPlaceholders ==
    /\ call.fn = "postgresPlaceholders"
    /\ ~out.done
    /\ out' = Returned(postgresPlaceholders(call.in))
    /\ UNCHANGED <<call, opVars>>

\* ------------------------------------------- QueryString's stringification
\* a scalar as rows.Scan stores it in an interface{}: its dynamic type and
\* its value.  Texts are sequences of characters, a float is a sign, its
\* whole part and its millionths, a time.Time its calendar fields, its
\* nanoseconds and its zone offset in minutes
StringVals == {<<>>, <<"a", "b">>}
SignedVals == {0 - 12, 0, 7, 120}
UnsignedVals == {0, 7, 120}
ByteVals == {48, 65, 97}
FloatVals ==
    {[neg |-> FALSE, whole |-> 1, micros |-> 500000],
     [neg |-> TRUE, whole |-> 0, micros |-> 250000],
     [neg |-> FALSE, whole |-> 30, micros |-> 0]}
TimeVals ==
    {[year |-> 2024, month |-> 1, day |-> 2, hour |-> 3, min |-> 4, sec |-> 5,
      nsec |-> 678000000, zone |-> 0],
     [year |-> 2024, month |-> 11, day |-> 30, hour |-> 23, min |-> 59, sec |-> 0,
      nsec |-> 0, zone |-> 60],
     [year |-> 1999, month |-> 12, day |-> 31, hour |-> 0, min |-> 0, sec |-> 9,
      nsec |-> 5, zone |-> 0 - 330]}
\* the integer types the type switch names, and those it does not
SwitchIntTypes == {"int64", "int32", "int16"}
OtherSignedTypes == {"int", "int8"}
OtherUnsignedTypes == {"uint", "uint16", "uint32", "uint64"}
FloatTypes == {"float32", "float64"}
Scalar(t, v) == [type |-> t, val |-> v]

\* fmt's %d of a signed integer
FormatInt(n) == IF n < 0 THEN <<"-">> \o FormatDecimal(0 - n) ELSE FormatDecimal(n)
\* n printed in at least w digits, padded with zeros on the left
RECURSIVE ZeroPad(_, _)
ZeroPad(digits, w) == IF Len(digits) >= w THEN digits ELSE ZeroPad(<<"0">> \o digits, w)
RECURSIVE TrimZeros(_)
TrimZeros(digits) ==
    IF Len(digits) > 0 /\ digits[Len(digits)] = "0"
       THEN TrimZeros(SubSeq(digits, 1, Len(digits) - 1))
       ELSE digits
\* fmt's %c of a byte: the character with that code point
CharOf(b) == CASE b = 48 -> "0" [] b = 65 -> "A" [] b = 97 -> "a"
\* fmt's %f: six digits after the point
FormatFixed(f) ==
    (IF f.neg THEN <<"-">> ELSE <<>>) \o FormatDecimal(f.whole) \o <<".">>
        \o ZeroPad(FormatDecimal(f.micros), 6)
\* t.Format(time.RFC3339Nano): "2006-01-02T15:04:05.999999999Z07:00"
FormatRFC3339Nano(t) ==
    LET two(n) == ZeroPad(FormatDecimal(n), 2)
        off == IF t.zone < 0 THEN 0 - t.zone ELSE t.zone
    IN ZeroPad(FormatDecimal(t.year), 4) \o <<"-">> \o two(t.month) \o <<"-">>
       \o two(t.day) \o <<"T">> \o two(t.hour) \o <<":">> \o two(t.min)
       \o <<":">> \o two(t.sec)
       \o (IF t.nsec = 0 THEN <<>>
           ELSE <<".">> \o TrimZeros(ZeroPad(FormatDecimal(t.nsec), 9)))
       \o (IF t.zone = 0 THEN <<"Z">>
           ELSE <<IF t.zone < 0 THEN "-" ELSE "+">> \o two(off \div 60)
                \o <<":">> \o two(off % 60))
\* the characters of a type's name
TypeChars(t) ==
    CASE t = "int" -> <<"i", "n", "t">>
      [] t = "int8" -> <<"i", "n", "t", "8">>
      [] t = "uint" -> <<"u", "i", "n", "t">>
      [] t = "uint16" -> <<"u", "i", "n", "t", "1", "6">>
      [] t = "uint32" -> <<"u", "i", "n", "t", "3", "2">>
      [] t = "uint64" -> <<"u", "i", "n", "t", "6", "4">>
\* fmt's %s: the text of a []byte; for an integer the bad-verb form
\* %!s(int8=7)
FormatS(v) ==
    IF v.type = "[]byte" THEN v.val
    ELSE <<"%", "!", "s", "(">> \o TypeChars(v.type) \o <<"=">>
         \o FormatInt(v.val) \o <<")">>

\* str := ""; if v != nil { switch t := v.(type) { ... } }
Stringify(v) ==
    IF v.type = "nil" THEN <<>>
    ELSE CASE v.type = "string" -> v.val
           [] v.type = "int64" -> FormatInt(v.val)
           [] v.type = "int32" -> FormatInt(v.val)
           [] v.type = "int16" -> FormatInt(v.val)
           [] v.type = "uint8" -> <<CharOf(v.val)>>
           [] v.type = "float32" -> FormatFixed(v.val)
           [] v.type = "float64" -> FormatFixed(v.val)
           [] v.type = "bool" -> IF v.val THEN <<"t", "r", "u", "e">>
                                 ELSE <<"f", "a", "l", "s", "e">>
           [] v.type = "time.Time" -> FormatRFC3339Nano(v.val)
           [] OTHER -> FormatS(v)

ApplyStringify ==
    /\ call.fn = "Stringify"
    /\ ~out.done
    /\ out' = Returned(Stringify(call.in))
    /\ UNCHANGED <<call, opVars>>

\* ------------------------------------------ unmarshal: binding of one row
\* the length a date or agg text is cut to
DateLen == 10
\* the texts a column of the row may hold: 8, 10, 11 and 29 characters
Text29 ==
    FormatRFC3339Nano([year |-> 2024, month |-> 1, day |-> 2, hour |-> 3,
                       min |-> 4, sec |-> 5, nsec |-> 678000000, zone |-> 60])
Text11 == SubSeq(Text29, 1, 11)
Text10 == SubSeq(Text29, 1, 10)
Text8 == <<"2", "0", "2", "4", "0", "1", "0", "2">>
ScanTexts == {Text8, Text10, Text11, Text29}
\* a struct field: its dbi tag split at the commas and its type's name
Field(tag, type) == [tag |-> tag, type |-> type]
BindFields ==
    {Field(<<>>, "string"), Field(<<"a">>, "string"), Field(<<"b">>, "int"),
     Field(<<"a", "date">>, "string"), Field(<<"a", "date">>, "int"),
     Field(<<"b", "agg">>, "string"), Field(<<"b", "agg">>, "int"),
     Field(<<"a", "date", "agg">>, "string")}
TagsOf(ft) == [k \in DOMAIN ft |-> ft[k].tag]
\* the inputs with which unmarshal reaches its row loop: no column bound
\* twice, every bound column among the result's columns, a value per column
RowInputs ==
    {[t |-> ft, cols |-> cs, vals |-> vs] :
        ft \in SeqsUpTo(BindFields, MaxFields), cs \in ResultColSets,
        vs \in SeqsUpTo(ScanTexts, 2)}
BindableRowInputs ==
    {x \in RowInputs :
        /\ Len(x.vals) = Len(x.cols)
        /\ CollectFields(TagsOf(x.t), 1, <<>>).dup = ""
        /\ MissingColumns(CollectFields(TagsOf(x.t), 1, <<>>).populate, x.cols) = {}}

\* columnPointers: the field bound to the column, or the scratch slot
\* &columns[i] for an agg binding and for a column no field binds
ColumnPointers(pop, cs) ==
    [ci \in DOMAIN cs |->
        IF cs[ci] \in DOMAIN pop /\ "agg" \notin pop[cs[ci]].Options
           THEN [to |-> "field", n |-> pop[cs[ci]].Field]
           ELSE [to |-> "scratch", n |-> ci]]
\* the field indexes appended to aggOptions / dateOptions, in column order
RECURSIVE AggOptionsFrom(_, _, _)
AggOptionsFrom(pop, cs, ci) ==
    IF ci > Len(cs) THEN <<>>
    ELSE (IF cs[ci] \in DOMAIN pop /\ "agg" \in pop[cs[ci]].Options
             THEN <<pop[cs[ci]].Field>> ELSE <<>>)
         \o AggOptionsFrom(pop, cs, ci + 1)
RECURSIVE DateOptionsFrom(_, _, _, _)
DateOptionsFrom(ft, pop, cs, ci) ==
    IF ci > Len(cs) THEN <<>>
    ELSE (IF /\ cs[ci] \in DOMAIN pop
             /\ "date" \in pop[cs[ci]].Options
             /\ ft[pop[cs[ci]].Field].type = "string"
             THEN <<pop[cs[ci]].Field>> ELSE <<>>)
         \o DateOptionsFrom(ft, pop, cs, ci + 1)

Digits == {"0", "1", "2", "3", "4", "5", "6", "7", "8", "9"}
IsNumeric(txt) == Len(txt) > 0 /\ \A k \in DOMAIN txt : txt[k] \in Digits
DigitVal(c) == CHOOSE d \in 0..9 : DigitChar(d) = c
RECURSIVE ParseInt(_)
ParseInt(txt) ==
    IF Len(txt) = 0 THEN 0
    ELSE 10 * ParseInt(SubSeq(txt, 1, Len(txt) - 1)) + DigitVal(txt[Len(txt)])
\* rows.Scan storing a text into a field: as it is into a string, parsed
\* into an int (a text that is no number makes Scan fail)
Converted(type, txt) == IF type = "string" THEN txt ELSE ParseInt(txt)
Zero(type) == IF type = "string" THEN <<>> ELSE 0
\* reflect's Value.String(): the text of a string, "<int Value>" otherwise
ValueString(type, v) ==
    IF type = "string" THEN v
    ELSE <<"<", "i", "n", "t", " ", "V", "a", "l", "u", "e", ">">>
\* if len(str) > 10 { newe.Field(i).Set(reflect.ValueOf(str[0:10])) }
Cut(str) == IF Len(str) > DateLen THEN SubSeq(str, 1, DateLen) ELSE str
InSeq(x, q) == \E k \in DOMAIN q : q[k] = x

\* one pass of the row loop up to the append: the pointers, rows.Scan, the
\* dateOptions loop and the aggOptions loop
BindRow(x) ==
    LET ft == x.t
        pop == CollectFields(TagsOf(ft), 1, <<>>).populate
        ptrs == ColumnPointers(pop, x.cols)
        dateOptions == DateOptionsFrom(ft, pop, x.cols, 1)
        aggOptions == AggOptionsFrom(pop, x.cols, 1)
        bound(k) == {ci \in DOMAIN ptrs : ptrs[ci] = [to |-> "field", n |-> k]}
        scanFails == \E ci \in DOMAIN ptrs :
                        /\ ptrs[ci].to = "field"
                        /\ ft[ptrs[ci].n].type # "string"
                        /\ ~IsNumeric(x.vals[ci])
        columns == [ci \in DOMAIN ptrs |->
                        IF ptrs[ci].to = "scratch" THEN x.vals[ci] ELSE <<>>]
        scanned == [k \in DOMAIN ft |->
                        IF bound(k) # {}
                           THEN Converted(ft[k].type, x.vals[CHOOSE ci \in bound(k) : TRUE])
                           ELSE Zero(ft[k].type)]
        dated == [k \in DOMAIN ft |->
                        IF InSeq(k, dateOptions) THEN Cut(scanned[k]) ELSE scanned[k]]
        setPanics == \E k \in DOMAIN ft :
                        /\ InSeq(k, aggOptions)
                        /\ Len(ValueString(ft[k].type, dated[k])) > DateLen
                        /\ ft[k].type # "string"
        agged == [k \in DOMAIN ft |->
                        IF InSeq(k, aggOptions)
                           THEN Cut(ValueString(ft[k].type, dated[k]))
                           ELSE dated[k]]
    IN IF scanFails THEN [kind |-> "scan error", rec |-> <<>>, columns |-> <<>>]
       ELSE IF setPanics THEN [kind |-> "panic", rec |-> <<>>, columns |-> <<>>]
       ELSE [kind |-> "ok", rec |-> agged, columns |-> columns]

ApplyBindRow ==
    /\ call.fn = "BindRow"
    /\ ~out.done
    /\ out' = Returned(BindRow(call.in))
    /\ UNCHANGED <<call, opVars>>

\* ------------------------------------------------------------ Config.Open
\* the configurations tried, and what the environment answers: the password
\* found behind env: or file: ("" when empty, "err" when unreadable), and
\* whether sql.Open and Ping succeed
Configs ==
    [User : {"", "u"}, Name : {"", "db"},
     Password : {"", "pw", "env:PW", "file:/pw"}, Driver : {"", "mysql"},
     SSLMode : {""}, Host : {""}, Port : {0, 5432}, MaxOpenConns : {0, 5},
     MaxIdleConns : {0}]
Environments == [secret : {"s3", "", "err"}, canOpen : BOOLEAN, canPing : BOOLEAN]

\* if c.User == "" { return "db user missing" }; if c.Name == "" { ... }
MissingIdentity_UserOnly(c) ==
    IF c.User = "" THEN "db user missing" ELSE ""
MissingIdentity(c) ==
    IF c.User = "" THEN "db user missing"
    ELSE IF c.Name = "" THEN "db name missing"
    ELSE ""

\* getPassword: the value behind env:, the trimmed content behind file:, or
\* the password itself
getPassword(password, env) ==
    IF password = "env:PW"
       THEN IF env.secret \in {"", "err"}
               THEN [pw |-> "", err |-> "reading password from environment"]
               ELSE [pw |-> env.secret, err |-> ""]
    ELSE IF password = "file:/pw"
       THEN IF env.secret = "err"
               THEN [pw |-> "", err |-> "reading password file"]
               ELSE [pw |-> env.secret, err |-> ""]
    ELSE [pw |-> password, err |-> ""]

\* Open: the calls it makes on database/sql, the handle c.db it leaves
\* ("unset" is the nil handle of a fresh Config) and the error it returns
Open(c, env) ==
    LET defaulted == [c EXCEPT !.Driver = IF @ = "" THEN "postgres" ELSE @,
                               !.SSLMode = IF @ = "" THEN "disable" ELSE @,
                               !.Host = IF @ = "" THEN "/var/run/postgresql" ELSE @]
        got == IF c.Password # "" THEN getPassword(c.Password, env)
               ELSE [pw |-> "", err |-> ""]
        pwpart == IF got.pw # "" THEN <<"password=", got.pw>> ELSE <<>>
        portpart == IF c.Port # 0 THEN <<" port=", c.Port>> ELSE <<>>
        dbstr == <<"user=", c.User, " dbname=", c.Name, " ", pwpart,
                   " sslmode=", defaulted.SSLMode, " host=", defaulted.Host,
                   portpart>>
        made(f) == [fn |-> f, driver |-> defaulted.Driver, dsn |-> dbstr]
        limits == (IF c.MaxOpenConns > 0 THEN <<made("SetMaxOpenConns")>> ELSE <<>>)
                  \o (IF c.MaxIdleConns > 0 THEN <<made("SetMaxIdleConns")>> ELSE <<>>)
    IN IF MissingIdentity(c) # ""
          THEN [err |-> MissingIdentity(c), db |-> "unset", calls |-> <<>>, c |-> c]
       ELSE IF got.err # ""
          THEN [err |-> got.err, db |-> "unset", calls |-> <<>>, c |-> defaulted]
       ELSE IF ~env.canOpen
          THEN [err |-> "sql.Open failed", db |-> "unset",
                calls |-> <<made("sql.Open")>>, c |-> defaulted]
       ELSE IF ~env.canPing
          THEN [err |-> "ping failed", db |-> "set",
                calls |-> <<made("sql.Open"), made("Ping")>>, c |-> defaulted]
       ELSE [err |-> "", db |-> "set",
             calls |-> <<made("sql.Open"), made("Ping")>> \o limits, c |-> defaulted]

ApplyOpen ==
    /\ call.fn = "Open"
    /\ ~out.done
    /\ out' = Returned(Open(call.in.c, call.in.env))
    /\ UNCHANGED <<call, opVars>>

InitFn ==
    /\ Idle
    /\ out = NotCalled
    /\ \/ call \in {[fn |-> "postgresPlaceholders", in |-> s] : s \in Texts}
       \/ call = [fn |-> "Stringify", in |-> Scalar("nil", 0)]
       \/ call \in {[fn |-> "Stringify", in |-> Scalar(t, v)] :
                        t \in {"string", "[]byte"}, v \in StringVals}
       \/ call \in {[fn |-> "Stringify", in |-> Scalar(t, v)] :
                        t \in SwitchIntTypes \cup OtherSignedTypes, v \in SignedVals}
       \/ call \in {[fn |-> "Stringify", in |-> Scalar(t, v)] :
                        t \in OtherUnsignedTypes, v \in UnsignedVals}
       \/ call \in {[fn |-> "Stringify", in |-> Scalar("uint8", v)] : v \in ByteVals}
       \/ call \in {[fn |-> "Stringify", in |-> Scalar(t, v)] :
                        t \in FloatTypes, v \in FloatVals}
       \/ call \in {[fn |-> "Stringify", in |-> Scalar("bool", v)] : v \in BOOLEAN}
       \/ call \in {[fn |-> "Stringify", in |-> Scalar("time.Time", v)] : v \in TimeVals}
       \/ call \in {[fn |-> "BindRow", in |-> x] : x \in BindableRowInputs}
       \/ call \in {[fn |-> "Open", in |-> [c |-> c, env |-> e]] :
                        c \in Configs, e \in Environments}

NextFn ==
    \/ ApplyPostgresPlaceholders
    \/ ApplyStringify
    \/ ApplyBindRow
    \/ ApplyOpen

SpecFn == InitFn /\ [][NextFn]_vars

\* ======================================================= claims C1 .. C10
Done == pc = "done"
Committing(l) == Has(l, "Commit") \/ Has(l, "CommitFailed")
RolledBackOnly == Has(log, "Rollback") /\ ~Committing(log)
FirstIndex(l, e) == CHOOSE k \in DOMAIN l : l[k].ev = e /\ \A m \in 1..(k - 1) : l[m].ev # e

\* C1: MultiQuery: when tx.Query, Scan or rows.Err of any statement faults,
\* the transaction is rolled back and never committed, nothing executed
\* before the fault persists, and the call returns the error and no
\* result sets.
C1_MultiQueryFaultRollsBack ==
    (/\ Done
     /\ op = "MultiQuery"
     /\ Has(log, "QueryFailed") \/ Has(log, "ScanFailed") \/ Has(log, "RowsErrFailed"))
    => /\ RolledBackOnly
       /\ durable = {}
       /\ result # Nil
       /\ ret = <<>>

\* C2: Upsert: when executing row i fails after rows 1..i-1 succeeded, the
\* transaction is rolled back and never committed, and no row's effect
\* persists after the call.
C2_UpsertRowFailureRollsBack ==
    (Done /\ op = "Upsert" /\ Has(log, "ExecFailed"))
    => /\ RolledBackOnly
       /\ durable = {}

\* C3: Transaction: when a Prepare fails or the execution of any row of any
\* set fails, the transaction is rolled back and never committed, and no
\* earlier row's effect persists after the call returns its error.
C3_TransactionFailureRollsBack ==
    (/\ Done
     /\ op = "Transaction"
     /\ Has(log, "PrepareFailed") \/ Has(log, "ExecFailed"))
    => /\ RolledBackOnly
       /\ durable = {}
       /\ result # Nil

\* C4: Unmarshal: whenever the call returns a non-nil error after its
\* transaction was begun, the transaction is rolled back and not committed.
C4_UnmarshalErrorRollsBack ==
    (/\ Done
     /\ op = "Unmarshal"
     /\ raised = NoPanic
     /\ Has(log, "Begin")
     /\ result # Nil)
    => RolledBackOnly

\* C5: every transactional operation: when the unit of work completes without
\* error the transaction is committed, and when that Commit fails the commit
\* error is what the caller gets (not nil).
BodyFaults ==
    {"QueryFailed", "ScanFailed", "RowsErrFailed", "PrepareFailed",
     "ExecFailed", "Panic"}
BodyCompleted ==
    /\ Has(log, "Begin")
    /\ \A k \in DOMAIN log : log[k].ev \notin BodyFaults
    /\ ~(op = "Unmarshal" /\ result.kind = "dbi: query didn't return any columns with name")
C5_CommitErrorReturned ==
    (Done /\ BodyCompleted)
    => /\ Committing(log)
       /\ Has(log, "CommitFailed") => result \in DriverErrs

\* C6: every transactional operation: a panic after the transaction was begun
\* leads to Rollback (never Commit), and only after the Rollback the same
\* panic value is raised to the caller, as the last thing the call does.
C6_PanicRollsBackThenReraises ==
    (Done /\ Has(log, "Panic"))
    => LET k == FirstIndex(log, "Panic")
       IN /\ ~Committing(log)
          /\ Count(log, "Rollback") = 1
          /\ k < FirstIndex(log, "Rollback")
          /\ FirstIndex(log, "Rollback") = Len(log) - 1
          /\ log[Len(log)] = EvP("Raise", log[k].p)
          /\ raised = log[k].p
          /\ tx = "rolledback"
          /\ durable = {}
C6_Witness ==
    /\ Done
    /\ op = "Transaction"
    /\ Has(log, "Exec")
    /\ Has(log, "Panic")
    /\ raised = "p2"

\* C7: a failing row execution is reported with 1-based numbers: Upsert names
\* the 1-based index of the failing row, Transaction the 1-based set number
\* and the 1-based row number inside the set.
C7_ErrorNamesOneBasedPosition ==
    (Done /\ op \in BatchOps /\ Has(log, "ExecFailed"))
    => LET f == log[FirstIndex(log, "ExecFailed")]
       IN /\ result.row = f.b
          /\ op = "Transaction" => result.set = f.a

\* C8: Transaction with a number of SQL texts different from the number of
\* argument-set lists fails at once with the count-mismatch error: no
\* transaction is begun, nothing is prepared, nothing is executed.
C8_UnevenSetsFailBeforeBegin ==
    (op = "Transaction" /\ inp.sql # Len(inp.args))
    => /\ log = <<>>
       /\ tx = "none"
       /\ pc \in {"tr_begin", "done"}
       /\ Done => result.kind = "uneven set of sql and data"
C8_Witness ==
    /\ Done
    /\ op = "Transaction"
    /\ inp.sql = 2
    /\ Len(inp.args) = 3
    /\ result.kind = "uneven set of sql and data"

\* the columns the record type's dbi tags name, and those named twice
BoundColumns(t) ==
    {t[k][1] : k \in {n \in DOMAIN t : Len(t[n]) > 0 /\ t[n][1] # ""}}
TwiceClaimed(t) ==
    {c \in BoundColumns(t) :
        \E a, b \in DOMAIN t : a # b /\ Len(t[a]) > 0 /\ Len(t[b]) > 0
                               /\ t[a][1] = c /\ t[b][1] = c}

\* C9: Unmarshal on a record type with two fields naming the same non-empty
\* column fails with the duplicate-column error before a transaction is
\* begun and before the query runs.
C9_DuplicateColumnFailsBeforeBegin ==
    (op = "Unmarshal" /\ TwiceClaimed(inp.t) # {})
    => /\ log = <<>>
       /\ tx = "none"
       /\ pc \in {"um_validate", "done"}
       /\ Done => /\ result.kind = "dbi: column used on multiple fields"
                  /\ result.col \in TwiceClaimed(inp.t)
C9_Witness ==
    /\ Done
    /\ op = "Unmarshal"
    /\ inp.t = <<<<"a">>, <<"a", "date">>>>
    /\ result.col = "a"
    /\ log = <<>>

\* the bound columns the result's column list lacks
AbsentColumns(t, cs) == BoundColumns(t) \ {cs[k] : k \in DOMAIN cs}

\* C10: Unmarshal whose query succeeds with a bound column absent from the
\* result columns fails before any row is read (no Next, no Scan) and leaves
\* the caller's collection as it was.
C10_MissingColumnFailsBeforeRows ==
    (op = "Unmarshal" /\ Has(log, "Query") /\ AbsentColumns(inp.t, cols) # {})
    => /\ ~Has(log, "Next")
       /\ ~Has(log, "Scan")
       /\ ~Has(log, "RowsErr")
       /\ target = inp.target
       /\ pc \in {"defer", "done"}
       /\ raised = NoPanic
       /\ result.kind = "dbi: query didn't return any columns with name"
       /\ result.col \in AbsentColumns(inp.t, cols)
C10_Witness ==
    /\ Done
    /\ op = "Unmarshal"
    /\ Has(log, "Query")
    /\ rowsLeft > 0
    /\ cols = <<"a">>
    /\ "b" \in BoundColumns(inp.t)
    /\ Len(inp.target) = 1
    /\ target = inp.target
    /\ result.col = "b"
\* C11: Unmarshal with a target that is not a pointer to a slice of pointers
\* to a struct (a nil target included) returns the shape error as an ordinary
\* error value, without a panic, and begins no transaction.
C11_BadShapeReturnsError ==
    (Done /\ op = "Unmarshal" /\ inp.v # StructPtrSlicePtr)
    => /\ raised = NoPanic
       /\ result.kind = "dbi: argument must be a ponter to a slice with pointers to a struct"
       /\ log = <<>>
       /\ tx = "none"
\* the text with its p-th character onwards rewritten one character at a
\* time: the n-th "?" becomes "$" and the digits of n, anything else stays
RECURSIVE RewrittenFrom(_, _, _)
RewrittenFrom(s, p, seen) ==
    IF p > Len(s) THEN <<>>
    ELSE IF s[p] = "?"
       THEN <<"$">> \o FormatDecimal(seen + 1) \o RewrittenFrom(s, p + 1, seen + 1)
    ELSE <<s[p]>> \o RewrittenFrom(s, p + 1, seen)
Markers(s) == Cardinality({p \in DOMAIN s : s[p] = "?"})

\* C12: postgresPlaceholders turns the n-th "?" (n = 1..k, left to right)
\* into $n where it stands, keeps every other character, yields exactly k
\* "$" markers and no "?", and returns a text without "?" unchanged.
C12_PlaceholdersNumberedInOrder ==
    (call.fn = "postgresPlaceholders" /\ out.done)
    => /\ out.val = RewrittenFrom(call.in, 1, 0)
       /\ Cardinality({p \in DOMAIN out.val : out.val[p] = "$"}) = Markers(call.in)
       /\ \A p \in DOMAIN out.val : out.val[p] # "?"
       /\ Markers(call.in) = 0 => out.val = call.in
C12_Witness ==
    /\ call.fn = "postgresPlaceholders"
    /\ out.done
    /\ Markers(call.in) = 10
    /\ SubSeq(out.val, Len(out.val) - 2, Len(out.val)) = <<"$", "1", "0">>
\* C13: QueryString's text of a scalar follows its dynamic type: nil gives
\* the empty text, a text itself, an integer of any width other than the
\* byte type its decimal digits, a float its fixed-point form, a boolean
\* "true" or "false", a byte its character, a time its RFC 3339 form with
\* nanoseconds.
C13_StringifyByType ==
    (call.fn = "Stringify" /\ out.done)
    => LET v == call.in
       IN /\ v.type = "nil" => out.val = <<>>
          /\ v.type = "string" => out.val = v.val
          /\ v.type \in SwitchIntTypes \cup OtherSignedTypes \cup OtherUnsignedTypes
                => out.val = FormatInt(v.val)
          /\ v.type \in FloatTypes => out.val = FormatFixed(v.val)
          /\ v.type = "bool" => out.val = IF v.val THEN <<"t", "r", "u", "e">>
                                          ELSE <<"f", "a", "l", "s", "e">>
          /\ v.type = "uint8" => out.val = <<CharOf(v.val)>>
          /\ v.type = "time.Time" => out.val = FormatRFC3339Nano(v.val)
\* the column index a field's tag binds in the row at hand, 0 if none
BoundColumn(x, k) ==
    IF Len(x.t[k].tag) > 0 /\ \E ci \in DOMAIN x.cols : x.cols[ci] = x.t[k].tag[1]
       THEN CHOOSE ci \in DOMAIN x.cols : x.cols[ci] = x.t[k].tag[1]
       ELSE 0
HasOption(f, o) == \E n \in 2..Len(f.tag) : f.tag[n] = o
First10(txt) == [n \in 1..(IF Len(txt) > 10 THEN 10 ELSE Len(txt)) |-> txt[n]]

\* C14: after a row is bound, a string field with the date option holds the
\* first 10 characters of the scanned value when that is longer than 10 and
\* the scanned value itself otherwise; on a field that is no string the date
\* option changes nothing.
C14_DateFieldHoldsFirstTen ==
    (call.fn = "BindRow" /\ out.done /\ out.val.kind = "ok")
    => \A k \in DOMAIN call.in.t :
          LET f == call.in.t[k]
              ci == BoundColumn(call.in, k)
          IN (HasOption(f, "date") /\ ci # 0)
             => out.val.rec[k] =
                   IF f.type = "string" THEN First10(call.in.vals[ci])
                   ELSE ParseInt(call.in.vals[ci])

\* C15: a field with the agg option has its column read into the scratch
\* slot, and after the row is read the field holds the text of that slot,
\* cut to its first 10 characters when longer.
C15_AggFieldFilledFromScratch ==
    (call.fn = "BindRow" /\ out.done /\ out.val.kind # "scan error")
    => \A k \in DOMAIN call.in.t :
          LET f == call.in.t[k]
              ci == BoundColumn(call.in, k)
          IN (HasOption(f, "agg") /\ ci # 0)
             => /\ out.val.kind = "ok"
                /\ out.val.columns[ci] = call.in.vals[ci]
                /\ f.type = "string" => out.val.rec[k] = First10(call.in.vals[ci])

\* C16: Open on a Config whose User or Name is empty (the empty Config
\* above all) returns an error, calls neither sql.Open nor Ping, and leaves
\* the handle unset.
C16_OpenNeedsUserAndName ==
    (call.fn = "Open" /\ out.done /\ (call.in.c.User = "" \/ call.in.c.Name = ""))
    => /\ out.val.err # ""
       /\ out.val.calls = <<>>
       /\ out.val.db = "unset"
C16_Witness ==
    /\ call.fn = "Open"
    /\ out.done
    /\ call.in.c = [User |-> "", Name |-> "", Password |-> "", Driver |-> "",
                    SSLMode |-> "", Host |-> "", Port |-> 0, MaxOpenConns |-> 0,
                    MaxIdleConns |-> 0]
    /\ call.in.env.canOpen
    /\ call.in.env.canPing
    /\ out.val.err = "db user missing"

\* the events of the log with one of the names in es, in log order
Only(l, es) == SelectSeq(l, LAMBDA x : x.ev \in es)
Faultless(l) == Has(l, "Begin") /\ \A k \in DOMAIN l : l[k].ev \notin BodyFaults

\* C17: MultiQuery with n statements and m <= n argument lists runs statement
\* s with list s, or with the empty list when s > m; when no statement
\* faults it returns n row sequences, the s-th holding the rows of statement
\* s in cursor order, and the n statements ran in input order inside the one
\* transaction begun.
C17_MultiQueryPadsAndReturnsAllSets ==
    (op = "MultiQuery" /\ Len(inp.args) <= inp.sql)
    => LET queries == Only(log, {"Query", "QueryFailed"})
       IN /\ \A k \in DOMAIN queries :
                /\ queries[k].a = k
                /\ queries[k].b = IF k <= Len(inp.args) THEN 1 ELSE 0
          /\ (Done /\ raised = NoPanic /\ Faultless(log))
                => /\ Len(ret) = inp.sql
                   /\ Len(queries) = inp.sql
                   /\ \A q \in 1..inp.sql :
                        ret[q] = [k \in 1..Cardinality({n \in DOMAIN log :
                                        log[n].ev = "Scan" /\ log[n].a = q})
                                  |-> <<q, k>>]
                   /\ Count(log, "Begin") = 1
                   /\ log[1].ev = "Begin"
                   /\ log[Len(log)].ev \in {"Commit", "CommitFailed"}
                   /\ result = Nil
C17_Witness ==
    /\ Done
    /\ op = "MultiQuery"
    /\ inp.sql = 2
    /\ Len(inp.args) = 1
    /\ Len(ret) = 2
    /\ Len(ret[1]) = 2
    /\ Len(ret[2]) = 1
    /\ tx = "committed"

\* the rows of a batch in input order: every row of set 1, then of set 2, ...
RECURSIVE RowsInOrder(_, _, _)
RowsInOrder(a, nsqls, setno) ==
    IF setno > nsqls THEN <<>>
    ELSE [r \in 1..a[setno] |-> <<setno, r>>] \o RowsInOrder(a, nsqls, setno + 1)

\* C18: Upsert and Transaction execute the rows in input order (set by set),
\* prepare every statement before the first row is executed, execute nothing
\* after a row has failed, and execute every row when nothing fails.
C18_RowsExecutedInInputOrder ==
    (op \in BatchOps /\ inp.sql = Len(inp.args))
    => LET execs == Only(log, {"Exec", "ExecFailed"})
           rows == RowsInOrder(inp.args, inp.sql, 1)
           prepared == Only(log, {"Prepare"})
       IN /\ Len(execs) <= Len(rows)
          /\ \A k \in DOMAIN execs :
                /\ <<execs[k].a, execs[k].b>> = rows[k]
                /\ execs[k].ev = "ExecFailed" => k = Len(execs)
          /\ \A k \in DOMAIN prepared : prepared[k].a = k
          /\ \A k \in DOMAIN log :
                log[k].ev \in {"Exec", "ExecFailed"}
                   => /\ Cardinality({n \in 1..(k - 1) : log[n].ev = "Prepare"}) = inp.sql
                      /\ \A n \in (k + 1)..Len(log) :
                            log[n].ev \notin {"Prepare", "PrepareFailed"}
          /\ (pc \in {"defer", "done"} /\ Faultless(log)) => Len(execs) = Len(rows)
C18_Witness ==
    /\ Done
    /\ op = "Transaction"
    /\ inp.sql = 2
    /\ inp.args = <<2, 2>>
    /\ Count(log, "Exec") = 2
    /\ \E k \in DOMAIN log : log[k] = Ev("ExecFailed", 2, 1)

\* C19: Unmarshal appends one new record per row read, in cursor order,
\* behind what the collection held; when the read of row j+1 fails the call
\* returns the scan error and the collection keeps the j records appended.
C19_OneRecordPerRowAppended ==
    op = "Unmarshal"
    => /\ target = inp.target \o [k \in 1..Count(log, "Scan") |-> [row |-> k]]
       /\ \A k \in DOMAIN Only(log, {"Scan", "ScanFailed"}) :
             Only(log, {"Scan", "ScanFailed"})[k].b = k
       /\ Has(log, "RowsErr") => rowsLeft = 0 /\ Count(log, "Next") = Count(log, "Scan")
       /\ (Done /\ Has(log, "ScanFailed"))
             => /\ result.kind = "dbi: row scan"
                /\ Len(target) = Len(inp.target)
                                 + log[FirstIndex(log, "ScanFailed")].b - 1
C19_Witness ==
    /\ Done
    /\ op = "Unmarshal"
    /\ Len(inp.target) = 1
    /\ Has(log, "ScanFailed")
    /\ Count(log, "Scan") = 1
    /\ target = <<[row |-> 0], [row |-> 1]>>
    /\ result.kind = "dbi: row scan"

\* C20: when MultiQuery, Upsert, Transaction or Unmarshal returns or
\* re-raises, every cursor and prepared statement it opened has been closed,
\* once, before the panic is raised again.
C20_EverythingOpenedIsClosed ==
    pc \in {"done", "wrap"}
    => /\ \A k \in DOMAIN log :
             log[k].ev \in {"Query", "Prepare"}
                => Cardinality({n \in (k + 1)..Len(log) :
                        /\ log[n].ev = "Close"
                        /\ log[n].a = log[k].a
                        /\ \A r \in 1..n : log[r].ev # "Raise"}) = 1
       /\ Count(log, "Close") = Count(log, "Query") + Count(log, "Prepare")
       /\ open = <<>>
C20_Witness ==
    /\ Done
    /\ op = "Transaction"
    /\ Count(log, "Prepare") = 2
    /\ Has(log, "Panic")
    /\ Count(log, "Close") = 2
    /\ raised = "p1"

TxEnds == {"Commit", "CommitFailed", "Rollback"}
TxUses ==
    {"Query", "QueryFailed", "Next", "Scan", "ScanFailed", "RowsErr",
     "RowsErrFailed", "Prepare", "PrepareFailed", "Exec", "ExecFailed"}

\* C21: in MultiQuery (and its wrappers), Upsert, Transaction and Unmarshal a
\* transaction that was begun is ended by one call, a Commit or a Rollback,
\* before the call returns or re-raises, and nothing is queried, prepared,
\* executed or scanned on it afterwards; when Begin fails neither Commit nor
\* Rollback is called and the call returns an error.
C21_TransactionEndedExactlyOnce ==
    LET ends == Only(log, TxEnds)
    IN /\ Len(ends) <= 1
       /\ Count(log, "Begin") + Count(log, "BeginFailed") <= 1
       /\ \A k \in DOMAIN log :
             /\ log[k].ev \in TxEnds
                   => /\ \E b \in 1..(k - 1) : log[b].ev = "Begin"
                      /\ \A n \in (k + 1)..Len(log) :
                            log[n].ev \notin TxUses \cup {"Begin"}
             /\ log[k].ev \in TxUses => \E b \in 1..(k - 1) : log[b].ev = "Begin"
             /\ log[k].ev = "Raise" => k = Len(log)
       /\ (Has(log, "Begin") /\ pc \in {"done", "wrap"})
             => /\ Len(ends) = 1
                /\ tx \in {"committed", "commitfailed", "rolledback"}
                /\ (tx = "rolledback") = Has(log, "Rollback")
       /\ Has(log, "BeginFailed")
             => /\ pc \in {"done", "wrap"}
                /\ log = <<Ev("BeginFailed", 0, 0)>>
                /\ tx \notin {"open", "committed", "commitfailed", "rolledback"}
                /\ result \in DriverErrs \/ result.kind = "dbi: begin"
                /\ raised = NoPanic
C21_Witness ==
    /\ Done
    /\ op = "Transaction"
    /\ Has(log, "ExecFailed")
    /\ Count(log, "Prepare") = 2
    /\ log[Len(log)].ev = "CommitFailed"
    /\ tx = "commitfailed"
====
